---- MODULE Spec2Model ----
(***************************************************************************)
(* A model of the personal-finance analytics pipeline:                     *)
(*   - the dataset normalizer (detect_column, validate_dataset) and the    *)
(*     dashboard script run that calls it (src/src/dashboard_old.py);      *)
(*   - the category model artifact shared by train_expense_categorizer     *)
(*     and predict_category (src/src/models.py).                           *)
(*   - detect_anomalies, forecast_expenses, the KPIs and the dashboard     *)
(*     sections that call them.                                            *)
(* Eight specifications: Spec (one run of the dashboard script over an     *)
(* input table), SpecModel (a trainer and a predictor working on one model *)
(* path), SpecCalls (detect_anomalies or forecast_expenses called on a     *)
(* CSV), SpecDash (the dashboard sections run on a filtered table),        *)
(* SpecFilter (the filter widgets and df_filt), SpecReport (the Anomalies  *)
(* and Report pages of src/src/dashboard.py over several script runs),     *)
(* SpecWeb (registration, login and logout in                              *)
(* src/personal_finance_web/app.py) and SpecSync (the transactions kept by *)
(* src/src/flask_backend.py and synced by src/src/dashboard.py).           *)
(***************************************************************************)
EXTENDS Integers, Sequences, FiniteSets, TLC

VARIABLES
    raw,        \* the CSV table as read by pd.read_csv (never changes)
    uploaded,   \* TRUE: a file was uploaded; FALSE: the default dataset is used
    given,      \* the table validate_dataset was called with (NoTable: not called)
    frame,      \* the caller's DataFrame object after the call (mutated in place)
    validated,  \* the table validate_dataset returned (NoTable: none)
    df,         \* the session's table `df` handed to the sections below
    pc,         \* the section of the script that runs next
    ran,        \* the downstream components that have run in this script run
    err,        \* the error reported by st.error, "" when none
    file,       \* the file at model_path: whether it exists, the pickled pair, the pieces written
    tpc,        \* the trainer's position in train_expense_categorizer
    tin,        \* a summary of the table the last training was called with
    tret,       \* what the last call of train_expense_categorizer returned
    trained,    \* TRUE once a training on model_path has succeeded
    ppc,        \* the predictor's position in predict_category
    pdesc,      \* the description predict_category was called with
    pstart,     \* whether a training had succeeded when predict_category was called
    pres,       \* the outcome of the last predict_category call
    tfit,       \* the training examples of the last training whose fit succeeded
    tab,        \* the table under analysis: a CSV as read, or the dashboard's df_filt
    apc,        \* the position of the analysis: the call or the section that runs next
    kpi,        \* the KPIs computed from df_filt
    anom,       \* the outcome of the last detect_anomalies call
    fc,         \* the outcome of the last forecast_expenses call
    shown,      \* the components whose result the dashboard run has shown
    reported,   \* the components whose failure the dashboard run has reported
    date_range, \* the value of the date_input widget: a tuple of dates
    selected_cats, \* the value of the categories multiselect
    afile,      \* the file at ANOMALIES_FILE: absent, or the table the last detection saved
    report,     \* the last PDF report: what its KPIs and its anomaly count were computed from
    db,         \* app.py's `db`: None, or a Database whose truth value can or cannot be taken
    users,      \* the users collection: the documents inserted, in order
    reg,        \* the registration requests: their form fields and how far each has got
    session,    \* the session's "user" entry, NoUser when the session has none
    page,       \* what the last response of the web app showed the browser
    txns,       \* the transactions collection: the documents inserted, in order
    spc,        \* the position of the dashboard run that fetches and syncs
    sdf,        \* the records of that run's `df`
    supl        \* TRUE when that run's df was read from an uploaded file

normVars == <<raw, uploaded, given, frame, validated, df, pc, ran, err>>
modelVars == <<file, tpc, tin, tret, trained, ppc, pdesc, pstart, pres, tfit>>
anaVars == <<tab, apc, kpi, anom, fc, shown, reported>>
fltVars == <<date_range, selected_cats>>
repVars == <<afile, report>>
webVars == <<db, users, reg, session, page>>
syncVars == <<txns, spc, sdf, supl>>
extVars == <<fltVars, repVars, webVars, syncVars>>
vars == <<raw, uploaded, given, frame, validated, df, pc, ran, err,
          file, tpc, tin, tret, trained, ppc, pdesc, pstart, pres, tfit,
          tab, apc, kpi, anom, fc, shown, reported,
          date_range, selected_cats, afile, report,
          db, users, reg, session, page, txns, spc, sdf, supl>>

----------------------------------------------------------------------------
(* Bounds of the model.                                                    *)

MaxCols == 3
MaxRows == 2
MaxCells == 4

----------------------------------------------------------------------------
(* Cells of a DataFrame.  A cell is NaN/NaT (Null), a number, a string or  *)
(* a timestamp; n of a timestamp is its calendar day written yyyymmdd.     *)
(* Amounts are whole currency units.                                       *)

Null == [k |-> "null", s |-> "", n |-> 0]
Num(x) == [k |-> "num", s |-> "", n |-> x]
Str(x) == [k |-> "str", s |-> x, n |-> 0]
Dt(x) == [k |-> "date", s |-> "", n |-> x]

None == ""
NoTable == [cols |-> <<>>, rows |-> <<>>, none |-> TRUE]
Table(cols, rows) == [cols |-> cols, rows |-> rows, none |-> FALSE]

Range(f) == {f[i] : i \in DOMAIN f}
Min(S) == CHOOSE x \in S : \A y \in S : x <= y

----------------------------------------------------------------------------
(* Strings as the code sees them: sequences of characters.                 *)

Chars(w) ==
    CASE w = "TxnDate" -> <<"T", "x", "n", "D", "a", "t", "e">>
      [] w = "Ann@x.org" -> <<"A", "n", "n", "@", "x", ".", "o", "r", "g">>
      [] w = "ann@x.org " -> <<"a", "n", "n", "@", "x", ".", "o", "r", "g", " ">>
      [] w = "bob@x.org" -> <<"b", "o", "b", "@", "x", ".", "o", "r", "g">>
      [] w = "Transaction Date" ->
            <<"T", "r", "a", "n", "s", "a", "c", "t", "i", "o", "n", " ", "D", "a", "t", "e">>
      [] w = "Amount" -> <<"A", "m", "o", "u", "n", "t">>
      [] w = "Debit" -> <<"D", "e", "b", "i", "t">>
      [] w = "Credit" -> <<"C", "r", "e", "d", "i", "t">>
      [] w = "Category" -> <<"C", "a", "t", "e", "g", "o", "r", "y">>
      [] w = "Type" -> <<"T", "y", "p", "e">>
      [] w = "Details" -> <<"D", "e", "t", "a", "i", "l", "s">>
      [] w = "Date" -> <<"D", "a", "t", "e">>
      [] w = "Description" -> <<"D", "e", "s", "c", "r", "i", "p", "t", "i", "o", "n">>
      [] w = "date" -> <<"d", "a", "t", "e">>
      [] w = "time" -> <<"t", "i", "m", "e">>
      [] w = "day" -> <<"d", "a", "y">>
      [] w = "amount" -> <<"a", "m", "o", "u", "n", "t">>
      [] w = "value" -> <<"v", "a", "l", "u", "e">>
      [] w = "money" -> <<"m", "o", "n", "e", "y">>
      [] w = "transaction" -> <<"t", "r", "a", "n", "s", "a", "c", "t", "i", "o", "n">>
      [] w = "debit" -> <<"d", "e", "b", "i", "t">>
      [] w = "credit" -> <<"c", "r", "e", "d", "i", "t">>
      [] w = "category" -> <<"c", "a", "t", "e", "g", "o", "r", "y">>
      [] w = "type" -> <<"t", "y", "p", "e">>
      [] w = "desc" -> <<"d", "e", "s", "c">>
      [] w = "merchant" -> <<"m", "e", "r", "c", "h", "a", "n", "t">>
      [] w = "details" -> <<"d", "e", "t", "a", "i", "l", "s">>

UpperLetters == <<"A", "B", "C", "D", "E", "F", "G", "H", "I", "J", "K", "L", "M",
                  "N", "O", "P", "Q", "R", "S", "T", "U", "V", "W", "X", "Y", "Z">>
LowerLetters == <<"a", "b", "c", "d", "e", "f", "g", "h", "i", "j", "k", "l", "m",
                  "n", "o", "p", "q", "r", "s", "t", "u", "v", "w", "x", "y", "z">>

\* str.lower() on one character
LowerOf == [c \in Range(UpperLetters) |->
              LowerLetters[CHOOSE i \in DOMAIN UpperLetters : UpperLetters[i] = c]]
LowerChar(c) == IF c \in DOMAIN LowerOf THEN LowerOf[c] ELSE c

\* variant: the column name is compared as written
AsWritten(w) == w

\* col.lower()
lower(w) == [i \in 1..Len(w) |-> LowerChar(w[i])]

\* `kw in col_lower`: kw is a substring of hay
contains(hay, kw) ==
    \E i \in 0..(Len(hay) - Len(kw)) : \A j \in 1..Len(kw) : hay[i + j] = kw[j]

----------------------------------------------------------------------------
(* detect_column and the keyword lists of validate_dataset.                *)

DateKeywords == {"date", "time", "day"}
AmountKeywords == {"amount", "value", "money", "transaction", "debit", "credit"}
CategoryKeywords == {"category", "type"}
DescKeywords == {"desc", "merchant", "details"}

\* variant: the loop keeps the last matching column
LastMatch(hits) == CHOOSE x \in hits : \A y \in hits : y <= x

\* for col in df.columns: the position that `return col` leaves the loop at
FirstMatch(hits) == Min(hits)

detect_column(columns, keywords) ==
    LET hits == {i \in 1..Len(columns) :
                    LET col_lower == lower(Chars(columns[i]))
                    IN  \E kw \in keywords : contains(col_lower, Chars(kw))}
    IN  IF hits = {} THEN None ELSE columns[FirstMatch(hits)]

----------------------------------------------------------------------------
(* DataFrame operations used by the normalizer.                            *)

HasColumn(t, name) == \E i \in 1..Len(t.cols) : t.cols[i] = name

\* df[name] = <value computed from each row>: an existing column is
\* overwritten in place, a new one is appended after the others
SetColumn(t, name, val(_)) ==
    [t EXCEPT
        !.cols = IF HasColumn(t, name) THEN t.cols ELSE Append(t.cols, name),
        !.rows = [i \in 1..Len(t.rows) |->
                    [c \in (DOMAIN t.rows[i]) \cup {name} |->
                        IF c = name THEN val(t.rows[i]) ELSE t.rows[i][c]]]]

\* the days of the analysed tables, and their ISO text: df.to_csv writes a
\* timestamp as this text, and pd.to_datetime reads it whatever dayfirst is
IsoDays == {"2023-09-15", "2023-10-20", "2023-12-05"}

IsoDay(s) ==
    CASE s = "2023-09-15" -> 20230915
      [] s = "2023-10-20" -> 20231020
      [] s = "2023-12-05" -> 20231205

IsoText(n) ==
    CASE n = 20230915 -> "2023-09-15"
      [] n = 20231020 -> "2023-10-20"
      [] n = 20231205 -> "2023-12-05"
      [] OTHER -> "other day"

\* pd.to_datetime(series, errors="coerce", dayfirst=...), one element.
\* "05/01/2024" is 5 January read day-first and 1 May read month-first;
\* a number is nanoseconds since the epoch; anything else becomes NaT.
ToDatetime(cell, dayfirst) ==
    CASE cell.k = "date" -> cell
      [] cell.k = "null" -> Null
      [] cell.k = "num" -> IF cell.n >= 0 THEN Dt(19700101) ELSE Dt(19691231)
      [] cell.k = "str" ->
            IF cell.s = "05/01/2024"
            THEN (IF dayfirst THEN Dt(20240105) ELSE Dt(20240501))
            ELSE IF cell.s = "2024-02-05" THEN Dt(20240205)
            ELSE IF cell.s \in IsoDays THEN Dt(IsoDay(cell.s))
            ELSE Null

\* pd.to_numeric(series, errors="coerce"), one element: a numeric string is
\* parsed, any other string becomes NaN
ToNumeric(cell) ==
    CASE cell.k = "num" -> cell
      [] cell.k = "null" -> Null
      [] cell.k = "date" -> Num(cell.n)
      [] cell.k = "str" ->
            IF cell.s = "12" THEN Num(12)
            ELSE IF cell.s = "-60" THEN Num(-60)
            ELSE Null

\* series.fillna(0), one element
FillNa0(cell) == IF cell.k = "null" THEN Num(0) ELSE cell

\* variant: zero counted as income
TypeOfAmountGe(cell) ==
    IF cell.k = "num" /\ cell.n >= 0 THEN Str("Income") ELSE Str("Expense")

\* lambda x: "Income" if x > 0 else "Expense"   (NaN > 0 is False)
TypeOfAmount(cell) ==
    IF cell.k = "num" /\ cell.n > 0 THEN Str("Income") ELSE Str("Expense")

AmountLimit == 1000000

\* variant: only the upper limit is applied
ClipUpperOnly(cell) ==
    IF cell.k # "num" THEN cell
    ELSE IF cell.n > AmountLimit THEN Num(AmountLimit)
    ELSE cell

\* series.clip(-1e6, 1e6), one element
Clip(cell) ==
    IF cell.k # "num" THEN cell
    ELSE IF cell.n > AmountLimit THEN Num(AmountLimit)
    ELSE IF cell.n < -AmountLimit THEN Num(-AmountLimit)
    ELSE cell

\* variant: rows are dropped on a missing Date only
KeptPositionsDateOnly(t) ==
    {i \in 1..Len(t.rows) : t.rows[i]["Date"].k # "null"}

\* the rows df.dropna(subset=["Date", "Amount"]) keeps: their positions
KeptPositions(t) ==
    {i \in 1..Len(t.rows) : t.rows[i]["Date"].k # "null" /\ t.rows[i]["Amount"].k # "null"}

RECURSIVE Pick(_, _, _)
\* the subsequence of rows at the positions in keep, in order
Pick(rows, keep, i) ==
    IF i > Len(rows) THEN <<>>
    ELSE IF i \in keep THEN <<rows[i]>> \o Pick(rows, keep, i + 1)
    ELSE Pick(rows, keep, i + 1)

\* df.dropna(subset=["Date", "Amount"]).copy()
DropNa(t) == [t EXCEPT !.rows = Pick(t.rows, KeptPositions(t), 1)]

----------------------------------------------------------------------------
(* validate_dataset.  Its result says how the call ended (status), what    *)
(* st.error reported, the caller's frame as the call left it (the column   *)
(* assignments are made on the caller's object) and the table returned.    *)

Stopped(msg, fr) == [status |-> "stopped", error |-> msg, frame |-> fr, out |-> NoTable]
Raised(fr) == [status |-> "raised", error |-> "exception", frame |-> fr, out |-> NoTable]
Returned(fr, out) == [status |-> "returned", error |-> "", frame |-> fr, out |-> out]

\* {"debit", "credit"}.issubset({c.lower() for c in df.columns})
HasDebitCreditPair(t) ==
    \A w \in {"debit", "credit"} :
        \E i \in 1..Len(t.cols) : lower(Chars(t.cols[i])) = Chars(w)

\* df.get("Credit", 0).fillna(0) - df.get("Debit", 0).fillna(0) can be
\* evaluated: both columns exist under exactly these names (the default 0
\* of df.get has no fillna) and hold numbers or NaN
CanSubtract(t) ==
    /\ HasColumn(t, "Credit") /\ HasColumn(t, "Debit")
    /\ \A i \in 1..Len(t.rows) :
          t.rows[i]["Credit"].k \in {"num", "null"} /\ t.rows[i]["Debit"].k \in {"num", "null"}

CreditMinusDebit(r) == Num(FillNa0(r["Credit"]).n - FillNa0(r["Debit"]).n)

\* lines 111-140: Category, Description, Type, dropna, clip, return
Finish(d2, category_col, desc_col) ==
    LET d3 == IF category_col # None
              THEN SetColumn(d2, "Category", LAMBDA r : r[category_col])
              ELSE SetColumn(d2, "Category", LAMBDA r : Str("Uncategorized"))
        d4 == IF desc_col # None
              THEN SetColumn(d3, "Description", LAMBDA r : r[desc_col])
              ELSE SetColumn(d3, "Description", LAMBDA r : Str("Unknown"))
        d5 == IF ~HasColumn(d4, "Type")
              THEN SetColumn(d4, "Type", LAMBDA r : TypeOfAmount(r["Amount"]))
              ELSE d4
        d6 == DropNa(d5)
        d7 == SetColumn(d6, "Amount", LAMBDA r : Clip(r["Amount"]))
    IN  Returned(d5, d7)

\* variant: st.stop() forgotten, the table built so far goes on
NoAmountGoesOn(d1, category_col, desc_col) == Returned(d1, d1)

\* lines 107-109: st.error(...); st.stop()
NoAmount(d1, category_col, desc_col) == Stopped("NoAmountColumn", d1)

\* lines 102-109: the Amount column
AmountStep(d1, amount_col, category_col, desc_col) ==
    IF amount_col # None
    THEN Finish(SetColumn(d1, "Amount", LAMBDA r : ToNumeric(r[amount_col])),
                category_col, desc_col)
    ELSE IF HasDebitCreditPair(d1)
    THEN (IF CanSubtract(d1)
          THEN Finish(SetColumn(d1, "Amount", LAMBDA r : CreditMinusDebit(r)),
                      category_col, desc_col)
          ELSE Raised(d1))
    ELSE NoAmount(d1, category_col, desc_col)

validate_dataset(t) ==
    LET date_col == detect_column(t.cols, DateKeywords)
        amount_col == detect_column(t.cols, AmountKeywords)
        category_col == detect_column(t.cols, CategoryKeywords)
        desc_col == detect_column(t.cols, DescKeywords)
    IN  IF date_col # None
        THEN AmountStep(SetColumn(t, "Date", LAMBDA r : ToDatetime(r[date_col], TRUE)),
                        amount_col, category_col, desc_col)
        ELSE Stopped("NoDateColumn", t)

\* The detection block the script runs around validate_dataset: after it in
\* the upload path (lines 186-206), before it in load_default_data (lines
\* 147-168).  Dates are parsed month-first here and nothing is clipped.
derive_date_amount_type(t) ==
    LET date_col == detect_column(t.cols, DateKeywords)
    IN  IF date_col = None THEN Stopped("NoDateColumn", t)
        ELSE
        LET d1 == SetColumn(t, "Date", LAMBDA r : ToDatetime(r[date_col], FALSE))
            amount_col == detect_column(d1.cols, AmountKeywords)
            typed(d2) == IF ~HasColumn(d2, "Type")
                         THEN SetColumn(d2, "Type", LAMBDA r : TypeOfAmount(r["Amount"]))
                         ELSE d2
        IN  IF amount_col # None
            THEN LET d2 == typed(SetColumn(d1, "Amount", LAMBDA r : ToNumeric(r[amount_col])))
                 IN  Returned(d2, d2)
            ELSE IF HasDebitCreditPair(d1)
            THEN (IF CanSubtract(d1)
                  THEN LET d2 == typed(SetColumn(d1, "Amount", LAMBDA r : CreditMinusDebit(r)))
                       IN  Returned(d2, d2)
                  ELSE Raised(d1))
            ELSE Stopped("NoAmountColumn", d1)

----------------------------------------------------------------------------
(* The input tables: every list of up to MaxCols distinct column names and *)
(* up to MaxRows rows, of at most MaxCells cells in all, each cell drawn   *)
(* from what a CSV column of that name may hold.                           *)

InputColumnNames ==
    {"TxnDate", "Transaction Date", "Amount", "Debit", "Credit", "Category", "Type", "Details"}

CellsOf(name) ==
    CASE name = "TxnDate" -> {Str("05/01/2024"), Str("n/a")}
      [] name = "Transaction Date" -> {Str("05/01/2024")}
      [] name = "Amount" -> {Num(-2000000), Num(0), Num(50), Str("abc")}
      [] name = "Debit" -> {Null, Num(0), Num(2000000)}
      [] name = "Credit" -> {Null, Num(80)}
      [] name = "Category" -> {Null, Str("Food")}
      [] name = "Type" -> {Str("Expense"), Str("Transfer")}
      [] name = "Details" -> {Null, Str("KFC")}

RECURSIVE ColumnLists(_)
\* the lists of exactly k distinct column names
ColumnLists(k) ==
    IF k = 0 THEN {<<>>}
    ELSE {Append(l, c) : <<l, c>> \in
            {p \in ColumnLists(k - 1) \X InputColumnNames : p[2] \notin Range(p[1])}}

RECURSIVE RowsOver(_)
\* the rows over a list of columns
RowsOver(cols) ==
    IF cols = <<>> THEN {[c \in {} |-> Null]}
    ELSE LET h == Head(cols)
         IN  {[c \in (DOMAIN r) \cup {h} |-> IF c = h THEN v ELSE r[c]] :
                <<r, v>> \in RowsOver(Tail(cols)) \X CellsOf(h)}

RECURSIVE RowLists(_, _)
\* the lists of exactly k rows over cols
RowLists(cols, k) ==
    IF k = 0 THEN {<<>>}
    ELSE {Append(l, r) : <<l, r>> \in RowLists(cols, k - 1) \X RowsOver(cols)}

InputTables ==
    UNION {
        UNION { {Table(cols, rows) : rows \in RowLists(cols, k)} :
                k \in {j \in 0..MaxRows : j * Len(cols) <= MaxCells} }
        : cols \in UNION {ColumnLists(n) : n \in 1..MaxCols} }

----------------------------------------------------------------------------
(* One run of the dashboard script (src/src/dashboard_old.py).             *)

InitNorm ==
    /\ raw \in InputTables
    /\ uploaded \in BOOLEAN
    /\ given = NoTable
    /\ frame = NoTable
    /\ validated = NoTable
    /\ df = NoTable
    /\ pc = "load"
    /\ ran = {}
    /\ err = ""

\* an error ends the run: st.stop() after st.error, or an uncaught exception
Halt(r) ==
    /\ pc' = (IF r.status = "raised" THEN "crashed" ELSE "stopped")
    /\ err' = r.error
    /\ df' = NoTable

\* lines 174-208: the uploaded file is read, validated, and its Date, Amount
\* and Type are derived once more
FileUpload ==
    /\ pc = "load" /\ uploaded
    /\ LET v == validate_dataset(raw)
       IN  /\ given' = raw
           /\ frame' = v.frame
           /\ validated' = v.out
           /\ IF v.status = "returned"
              THEN LET u == derive_date_amount_type(v.out)
                   IN  IF u.status = "returned"
                       THEN pc' = "filters" /\ err' = "" /\ df' = u.out
                       ELSE Halt(u)
              ELSE Halt(v)
    /\ UNCHANGED <<raw, uploaded, ran>>
    /\ UNCHANGED <<modelVars, anaVars, extVars>>

\* lines 142-171 and 210-212: load_default_data
LoadDefault ==
    /\ pc = "load" /\ ~uploaded
    /\ LET p == derive_date_amount_type(raw)
       IN  IF p.status = "returned"
           THEN LET v == validate_dataset(p.out)
                IN  /\ given' = p.out
                    /\ frame' = v.frame
                    /\ validated' = v.out
                    /\ IF v.status = "returned"
                       THEN pc' = "filters" /\ err' = "" /\ df' = v.out
                       ELSE Halt(v)
           ELSE /\ Halt(p)
                /\ UNCHANGED <<given, frame, validated>>
    /\ UNCHANGED <<raw, uploaded, ran>>
    /\ UNCHANGED <<modelVars, anaVars, extVars>>

----------------------------------------------------------------------------
(* The category model (src/src/models.py): one trainer and one predictor   *)
(* working on the same model_path.  joblib.dump opens the file for writing *)
(* (which truncates it) and writes the pickle in DumpChunks pieces; the    *)
(* code takes no lock and writes to no temporary file.                     *)

MaxTrainRows == 2
DumpChunks == 2

NoKpi == [status |-> "none"]
NoResult == [status |-> "none"]

NoFile == [exists |-> FALSE, art |-> <<>>, written |-> 0]
Complete(f) == f.exists /\ f.written = DumpChunks

TrainColumnLists ==
    {<<"Description">>, <<"Category">>, <<"Type">>,
     <<"Description", "Category">>, <<"Description", "Type">>, <<"Category", "Type">>,
     <<"Description", "Category", "Type">>}

TrainCellsOf(name) ==
    CASE name = "Description" -> {Null, Str("KFC")}
      [] name = "Category" -> {Null, Str("Food"), Str("Bills")}
      [] name = "Type" -> {Str("Expense"), Str("Income")}

RECURSIVE TrainRowsOver(_)
TrainRowsOver(cols) ==
    IF cols = <<>> THEN {[c \in {} |-> Null]}
    ELSE LET h == Head(cols)
         IN  {[c \in (DOMAIN r) \cup {h} |-> IF c = h THEN v ELSE r[c]] :
                <<r, v>> \in TrainRowsOver(Tail(cols)) \X TrainCellsOf(h)}

RECURSIVE TrainRowLists(_, _)
TrainRowLists(cols, k) ==
    IF k = 0 THEN {<<>>}
    ELSE {Append(l, r) : <<l, r>> \in TrainRowLists(cols, k - 1) \X TrainRowsOver(cols)}

\* the tables pd.read_csv(file_path) may give the trainer
TrainTables ==
    UNION { UNION { {Table(cols, rows) : rows \in TrainRowLists(cols, k)} :
                    k \in 0..MaxTrainRows }
            : cols \in TrainColumnLists }

Descriptions == {"KFC", "Uber ride"}

\* series.astype(str), one element: NaN becomes the string "nan"
AsStr(cell) ==
    CASE cell.k = "str" -> cell.s
      [] cell.k = "null" -> "nan"
      [] OTHER -> "number"

\* lines 35-36: df[df["Type"] == "Expense"] when there is a Type column
ExpenseOnly(t) ==
    IF HasColumn(t, "Type")
    THEN [t EXCEPT !.rows = Pick(t.rows, {i \in 1..Len(t.rows) : t.rows[i]["Type"] = Str("Expense")}, 1)]
    ELSE t

\* variant: the Category column is not asked for
CannotTrainNoCategoryCheck(f) ==
    Len(f.rows) = 0 \/ ~HasColumn(f, "Description")

\* line 38: df.empty or "Description" not in df.columns or "Category" not in df.columns
CannotTrain(f) ==
    Len(f.rows) = 0 \/ ~HasColumn(f, "Description") \/ ~HasColumn(f, "Category")

\* lines 42-43: the training examples, X and y as strings
Examples(f) ==
    [i \in 1..Len(f.rows) |-> [x |-> AsStr(f.rows[i]["Description"]),
                               y |-> AsStr(f.rows[i]["Category"])]]

Classes(art) == {art[i].y : i \in 1..Len(art)}

\* lines 32-49, up to the fitted pair: nothing trained (None, None), an
\* exception (a column looked up that is not there; LogisticRegression.fit
\* on fewer than two classes), or the fitted pair, which is a function of
\* the examples
Fit(t) ==
    LET f == ExpenseOnly(t)
    IN  IF CannotTrain(f) THEN [kind |-> "none", art |-> <<>>]
        ELSE IF ~HasColumn(f, "Description") \/ ~HasColumn(f, "Category")
        THEN [kind |-> "raised", art |-> <<>>]
        ELSE IF Cardinality(Classes(Examples(f))) < 2
        THEN [kind |-> "raised", art |-> <<>>]
        ELSE [kind |-> "fitted", art |-> Examples(f)]

\* what the claims need to know of the table a training was called with
Summary(t) ==
    [called |-> TRUE,
     hasDescription |-> HasColumn(t, "Description"),
     hasCategory |-> HasColumn(t, "Category"),
     expenseRows |-> Len(ExpenseOnly(t).rows)]

\* no training has been called yet
NoCall == [called |-> FALSE, hasDescription |-> FALSE, hasCategory |-> FALSE, expenseRows |-> 0]

\* lines 63-65: clf.predict(vec.transform([description]))[0], a label of
\* clf.classes_ that is a function of the fitted pair and the description:
\* here the label of the first example with this description, else of the
\* first example
PredictLabel(art, description) ==
    LET same == {i \in 1..Len(art) : art[i].x = description}
    IN  IF same = {} THEN art[1].y ELSE art[Min(same)].y

\* a call of train_expense_categorizer on each table: the summary of the
\* table and what lines 32-49 make of it
TrainRuns == {[tin |-> Summary(t), fit |-> Fit(t)] : t \in TrainTables}

\* variant: a file already at model_path is left as it is
DumpedKeepsOld(old, new) == IF old.exists THEN old ELSE [exists |-> TRUE, art |-> new, written |-> 0]

\* line 51: joblib.dump((clf, vec), model_path) opens model_path for writing,
\* which creates the file or truncates the one that is there; nothing of the
\* old content is kept
Dumped(old, new) == [exists |-> TRUE, art |-> new, written |-> 0]

InitModel ==
    /\ file = NoFile
    /\ tfit = <<>>
    /\ tpc = "idle"
    /\ tin = NoCall
    /\ tret = "none"
    /\ trained = FALSE
    /\ ppc = "idle"
    /\ pdesc = ""
    /\ pstart = "none"
    /\ pres = "none"

\* train_expense_categorizer is called: lines 32-49, and joblib.dump opens
\* model_path for writing, which creates or truncates the file
TrainCall ==
    /\ tpc \in {"idle", "returned"}
    /\ \E run \in TrainRuns :
          LET r == run.fit
          IN  /\ tin' = run.tin
              /\ IF r.kind = "fitted"
                 THEN /\ file' = Dumped(file, r.art)
                      /\ tfit' = r.art
                      /\ tpc' = "dump"
                      /\ tret' = "none"
                 ELSE /\ file' = file
                      /\ tfit' = tfit
                      /\ tpc' = "returned"
                      /\ tret' = (IF r.kind = "none" THEN "None, None" ELSE "raised")
    /\ UNCHANGED <<trained, ppc, pdesc, pstart, pres>>
    /\ UNCHANGED <<normVars, anaVars, extVars>>

\* line 51: joblib.dump writes the next piece of the pickle
DumpWrite ==
    /\ tpc = "dump"
    /\ file.written < DumpChunks
    /\ file' = [file EXCEPT !.written = @ + 1]
    /\ UNCHANGED <<tpc, tin, tret, trained, ppc, pdesc, pstart, pres, tfit>>
    /\ UNCHANGED <<normVars, anaVars, extVars>>

\* lines 51-53: the dump is complete, the file is closed, (clf, vec) returned
TrainReturn ==
    /\ tpc = "dump"
    /\ file.written = DumpChunks
    /\ tpc' = "returned"
    /\ tret' = "clf, vec"
    /\ trained' = TRUE
    /\ UNCHANGED <<file, tin, ppc, pdesc, pstart, pres, tfit>>
    /\ UNCHANGED <<normVars, anaVars, extVars>>

\* predict_category(description) is called
PredictCall ==
    /\ ppc = "idle"
    /\ \E d \in Descriptions : pdesc' = d
    /\ ppc' = "exists"
    /\ pstart' = (IF trained THEN "trained" ELSE "untrained")
    /\ pres' = "none"
    /\ UNCHANGED <<file, tpc, tin, tret, trained, tfit>>
    /\ UNCHANGED <<normVars, anaVars, extVars>>

\* lines 61-62: os.path.exists(model_path)
PredictExists ==
    /\ ppc = "exists"
    /\ IF file.exists
       THEN ppc' = "load" /\ UNCHANGED <<pdesc, pres>>
       ELSE ppc' = "idle" /\ pres' = "FileNotFoundError" /\ pdesc' = ""
    /\ UNCHANGED <<file, tpc, tin, tret, trained, pstart, tfit>>
    /\ UNCHANGED <<normVars, anaVars, extVars>>

\* lines 63-65: joblib.load reads the file as it is now; a truncated pickle
\* does not unpickle
PredictLoad ==
    /\ ppc = "load"
    /\ pres' = (IF Complete(file) THEN PredictLabel(file.art, pdesc) ELSE "LoadError")
    /\ ppc' = "idle"
    /\ pdesc' = ""
    /\ UNCHANGED <<file, tpc, tin, tret, trained, pstart, tfit>>
    /\ UNCHANGED <<normVars, anaVars, extVars>>

NextModel ==
    \/ TrainCall
    \/ DumpWrite
    \/ TrainReturn
    \/ PredictCall
    \/ PredictExists
    \/ PredictLoad

NoRun ==
    /\ raw = NoTable
    /\ uploaded = FALSE
    /\ given = NoTable
    /\ frame = NoTable
    /\ validated = NoTable
    /\ df = NoTable
    /\ pc = "off"
    /\ ran = {}
    /\ err = ""

\* no filter widget, no report page, no web request and no sync is in play
FltOff == date_range = <<>> /\ selected_cats = {}
RepOff == afile = NoTable /\ report = [status |-> "none"]
NoUser == <<>>
NoForm == [email |-> "", password |-> ""]
NoPage == [view |-> "none", form |-> NoForm]
WebOff == db = "None" /\ users = <<>> /\ reg = <<>> /\ session = NoUser /\ page = NoPage
SyncOff == txns = <<>> /\ spc = "off" /\ sdf = <<>> /\ supl = FALSE
ExtOff == FltOff /\ RepOff /\ WebOff /\ SyncOff

----------------------------------------------------------------------------
(* The analytics functions of src/src/models.py (detect_anomalies,         *)
(* forecast_expenses), the KPIs, and the sections of the dashboard script  *)
(* that call them on the filtered table df_filt.                           *)

MaxTxns == 4
MaxHorizon == 3
MaxDashRows == 3

\* df.to_csv(path, index=False) followed by pd.read_csv(path), one element:
\* a timestamp comes back as its ISO text, an empty field as NaN
CsvCell(cell) == IF cell.k = "date" THEN Str(IsoText(cell.n)) ELSE cell

CsvRoundTrip(t) ==
    [t EXCEPT !.rows = [i \in 1..Len(t.rows) |->
                          [c \in DOMAIN t.rows[i] |-> CsvCell(t.rows[i][c])]]]

RECURSIVE SumAmounts(_, _)
\* series.sum() over the rows at the positions in S
SumAmounts(t, S) ==
    IF S = {} THEN 0
    ELSE LET i == CHOOSE x \in S : TRUE
         IN  t.rows[i]["Amount"].n + SumAmounts(t, S \ {i})

Abs(x) == IF x < 0 THEN -x ELSE x

\* ---- detect_anomalies ----

\* variant: only the missing column is asked for
NothingToScoreNoEmptyCheck(t) == ~HasColumn(t, "Amount")

\* line 79: "Amount" not in df.columns or df.empty
NothingToScore(t) == ~HasColumn(t, "Amount") \/ Len(t.rows) = 0

\* lines 88-90: the label fit_predict gives a row, "Normal" or "Anomaly";
\* which of the two is not computed here
AnomalyLabel == Str("Normal or Anomaly")

\* lines 77-94.  fitted: the positions of the rows handed to
\* IsolationForest.fit_predict, which are all rows of df[["Amount"]].
\* nanOk: whether the installed IsolationForest accepts NaN in X (it raises
\* ValueError when it does not).
detect_anomalies(t, nanOk) ==
    IF NothingToScore(t)
    THEN [status |-> "returned", out |-> t, fitted |-> {}, saved |-> FALSE]
    ELSE LET d1 == SetColumn(t, "Amount", LAMBDA r : ToNumeric(r["Amount"]))
             X == 1..Len(d1.rows)
         IN  IF X = {} \/ ((\E i \in X : d1.rows[i]["Amount"].k = "null") /\ ~nanOk)
             THEN [status |-> "raised", out |-> NoTable, fitted |-> X, saved |-> FALSE]
             ELSE [status |-> "returned",
                   out |-> SetColumn(d1, "Anomaly", LAMBDA r : AnomalyLabel),
                   fitted |-> X, saved |-> TRUE]

\* ---- forecast_expenses ----

\* Date.dt.to_period("M"): the calendar month of a timestamp, as yyyymm
Month(cell) == cell.n \div 100

\* freq="MS": the month after month ym
NextMonth(ym) == IF ym % 100 = 12 THEN (ym \div 100 + 1) * 100 + 1 ELSE ym + 1

\* variant: every row with a number and a date is taken
ExpenseRowsAnySign(t) ==
    {i \in 1..Len(t.rows) :
        t.rows[i]["Amount"].k = "num" /\ t.rows[i]["Date"].k # "null"}

\* line 125: df[df["Amount"] < 0].dropna(subset=["Date"]), as positions
ExpenseRows(t) ==
    {i \in 1..Len(t.rows) :
        /\ t.rows[i]["Amount"].k = "num" /\ t.rows[i]["Amount"].n < 0
        /\ t.rows[i]["Date"].k # "null"}

RECURSIVE Sorted(_)
\* a set of numbers as an increasing sequence
Sorted(S) == IF S = {} THEN <<>> ELSE <<Min(S)>> \o Sorted(S \ {Min(S)})

\* lines 130-137: one row per calendar month that has an expense row, in
\* month order; y is the absolute value of the month's sum
Monthly(t, rows) ==
    LET months == Sorted({Month(t.rows[i]["Date"]) : i \in rows})
    IN  [k \in 1..Len(months) |->
            [ds |-> months[k],
             y |-> Abs(SumAmounts(t, {i \in rows : Month(t.rows[i]["Date"]) = months[k]}))]]

\* variant: the future months are counted from the first month of the history
LastDateFirst(monthly) == monthly[1].ds

\* make_future_dataframe: last_date = self.history_dates.max()
LastDate(monthly) == monthly[Len(monthly)].ds

RECURSIVE MonthRange(_, _)
\* pd.date_range(start=start, periods=n, freq="MS"), start a month start
MonthRange(start, n) ==
    IF n = 0 THEN <<>> ELSE <<start>> \o MonthRange(NextMonth(start), n - 1)

\* line 145: m.make_future_dataframe(periods, freq="MS"): the months of the
\* history followed by the first `periods` months of the range that lie
\* after the last one
MakeFuture(monthly, periods) ==
    LET last_date == LastDate(monthly)
        dates == MonthRange(last_date, periods + 1)
        after == Pick(dates, {k \in 1..Len(dates) : dates[k] > last_date}, 1)
    IN  [k \in 1..Len(monthly) |-> monthly[k].ds] \o SubSeq(after, 1, Min({periods, Len(after)}))

\* line 146: m.predict(future): one row per month of `future`; the numbers
\* Prophet estimates are not computed here
Predict(future) ==
    [k \in 1..Len(future) |->
        [ds |-> future[k], yhat |-> "estimate", yhat_lower |-> "lower", yhat_upper |-> "upper"]]

\* variant: the whole prediction is kept
TailRowsAll(rows, n) == rows

\* line 155: fc.tail(periods)
TailRows(rows, n) == SubSeq(rows, Len(rows) - Min({n, Len(rows)}) + 1, Len(rows))

FcRaised(msg, monthly) ==
    [status |-> "raised", error |-> msg, monthly |-> monthly, periods |-> 0,
     rows |-> <<>>, csv |-> <<>>]

\* variant: two monthly points are taken as enough
TooFewMonthsTwo(monthly) == Len(monthly) < 2

\* line 139: len(monthly) < 3
TooFewMonths(monthly) == Len(monthly) < 3

\* lines 115-159.  monthly: the monthly series built at lines 130-137;
\* rows: the table returned; csv: the rows written to csv_path
forecast_expenses(t, periods) ==
    IF ~HasColumn(t, "Date") \/ ~HasColumn(t, "Amount")
    THEN FcRaised("MissingColumns", <<>>)
    ELSE LET d1 == SetColumn(t, "Date", LAMBDA r : ToDatetime(r["Date"], FALSE))
             d2 == SetColumn(d1, "Amount", LAMBDA r : ToNumeric(r["Amount"]))
             rows == ExpenseRows(d2)
         IN  IF rows = {} THEN FcRaised("NoExpenseRows", <<>>)
             ELSE LET monthly == Monthly(d2, rows)
                  IN  IF TooFewMonths(monthly) THEN FcRaised("NotEnoughMonths", monthly)
                      ELSE LET tail == TailRows(Predict(MakeFuture(monthly, periods)), periods)
                           IN  [status |-> "returned", error |-> "", monthly |-> monthly,
                                periods |-> periods, rows |-> tail, csv |-> tail]

\* ---- the tables a caller hands to the two functions (file_path) ----

CallColumnLists == {<<"Date", "Amount">>, <<"Date">>, <<"Amount">>}

\* the rows of a CSV: an expense on a day of each month and on an unreadable
\* date, and an income, a zero and a non-numeric amount
CallRows ==
    {[Date |-> Str(d), Amount |-> Num(-50)] : d \in IsoDays \cup {"n/a"}}
    \cup {[Date |-> Str("2023-09-15"), Amount |-> a] : a \in {Num(1000), Num(0), Str("abc")}}

\* the rows over a list of columns
CallRowsOver(cols) == {[c \in Range(cols) |-> r[c]] : r \in CallRows}

RECURSIVE CallRowLists(_, _)
CallRowLists(cols, k) ==
    IF k = 0 THEN {<<>>}
    ELSE {Append(l, r) : <<l, r>> \in CallRowLists(cols, k - 1) \X CallRowsOver(cols)}

\* pd.read_csv(file_path)
CallTables ==
    UNION { UNION { {Table(cols, rows) : rows \in CallRowLists(cols, k)} : k \in 0..MaxTxns }
            : cols \in CallColumnLists }

\* the table is handed to one of the functions (as src/src/test_models.py does)
InitCalls ==
    /\ tab \in CallTables
    /\ apc = "call"
    /\ kpi = NoKpi
    /\ anom = NoResult
    /\ fc = NoResult
    /\ shown = {}
    /\ reported = {}

\* detect_anomalies(file_path, save_path)
DetectCall ==
    /\ apc = "call"
    /\ \E nanOk \in BOOLEAN : anom' = detect_anomalies(tab, nanOk)
    /\ apc' = "returned"
    /\ UNCHANGED <<tab, kpi, fc, shown, reported>>
    /\ UNCHANGED <<normVars, modelVars, extVars>>

\* forecast_expenses(file_path, periods)
ForecastCall ==
    /\ apc = "call"
    /\ \E periods \in 1..MaxHorizon : fc' = forecast_expenses(tab, periods)
    /\ apc' = "returned"
    /\ UNCHANGED <<tab, kpi, anom, shown, reported>>
    /\ UNCHANGED <<normVars, modelVars, extVars>>

NextCalls ==
    \/ DetectCall
    \/ ForecastCall

----------------------------------------------------------------------------
(* The sections of the dashboard script below the filters, run on the      *)
(* filtered table df_filt (src/src/dashboard_old.py, lines 257-529).       *)

\* the horizons the forecast section offers (line 468)
DashHorizons == {3, 6, 12}

\* a row of df_filt: the canonical columns, Date and Amount never null
DashRow(day, amount) ==
    [Date |-> Dt(day), Amount |-> Num(amount), Category |-> Str("Food"),
     Description |-> Str("KFC"), Type |-> TypeOfAmount(Num(amount))]

DashRows == {DashRow(IsoDay(d), a) : <<d, a>> \in IsoDays \X {-50, -60, 1000}}

RECURSIVE DashRowLists(_)
DashRowLists(k) ==
    IF k = 0 THEN {<<>>}
    ELSE {Append(l, r) : <<l, r>> \in DashRowLists(k - 1) \X DashRows}

\* the filtered tables: up to MaxDashRows rows, none when the date range
\* holds no transaction
DashTables ==
    UNION { {Table(<<"Date", "Amount", "Category", "Description", "Type">>, rows) :
                rows \in DashRowLists(k)} : k \in 0..MaxDashRows }

\* an artifact that a training stored at model_path earlier
StoredArtifact ==
    [exists |-> TRUE, written |-> DumpChunks,
     art |-> <<[x |-> "KFC", y |-> "Food"], [x |-> "Uber ride", y |-> "Bills"]>>]

\* variant: expenses are not turned positive
TotalExpensesSigned(t) == SumAmounts(t, {i \in 1..Len(t.rows) : t.rows[i]["Amount"].n < 0})

\* line 260: df_filt[df_filt["Amount"] > 0]["Amount"].sum()
TotalIncome(t) == SumAmounts(t, {i \in 1..Len(t.rows) : t.rows[i]["Amount"].n > 0})

\* line 261: df_filt[df_filt["Amount"] < 0]["Amount"].sum() * -1
TotalExpenses(t) == SumAmounts(t, {i \in 1..Len(t.rows) : t.rows[i]["Amount"].n < 0}) * (-1)

\* lines 260-263.  savings_rate is the quotient num / den, kept as a fraction
KPIs(t) ==
    LET total_income == TotalIncome(t)
        total_expenses == TotalExpenses(t)
        net_savings == total_income - total_expenses
    IN  [status |-> "computed",
         total_income |-> total_income,
         total_expenses |-> total_expenses,
         net_savings |-> net_savings,
         savings_rate |-> IF total_income > 0
                          THEN [num |-> net_savings * 100, den |-> total_income]
                          ELSE [num |-> 0, den |-> 1]]

\* lines 56-65, run from start to end with no other process at the file
predict_category(f, description) ==
    IF ~f.exists THEN "FileNotFoundError"
    ELSE IF Complete(f) THEN PredictLabel(f.art, description)
    ELSE "LoadError"

\* one run of the sections on a filtered table
InitDash ==
    /\ tab \in DashTables
    /\ apc = "kpis"
    /\ kpi = NoKpi
    /\ anom = NoResult
    /\ fc = NoResult
    /\ shown = {}
    /\ reported = {}

\* lines 257-269: the KPIs
KPISection ==
    /\ apc = "kpis"
    /\ kpi' = KPIs(tab)
    /\ shown' = shown \cup {"kpis"}
    /\ apc' = "insights"
    /\ UNCHANGED <<tab, anom, fc, reported>>
    /\ UNCHANGED <<normVars, modelVars, extVars>>

\* lines 271-425: the charts.  plot_expenses_by_category and
\* plot_expenses_over_time save no picture when there is no expense row, and
\* st.image (line 337) then shows a picture an earlier run left (stale) or
\* raises for want of the file
InsightsSection ==
    /\ apc = "insights"
    /\ \E stale \in BOOLEAN :
          IF ExpenseRows(tab) = {} /\ ~stale
          THEN apc' = "crashed" /\ shown' = shown
          ELSE apc' = "anomaly" /\ shown' = shown \cup {"insights"}
    /\ UNCHANGED <<tab, kpi, anom, fc, reported>>
    /\ UNCHANGED <<normVars, modelVars, extVars>>

\* line 435: df_anom[df_anom["Anomaly"] == "Anomaly"] can be evaluated
AnomalyColumnRead(out) == HasColumn(out, "Anomaly")

\* lines 427-451: anomaly detection on the filtered table, written to a
\* CSV and read back; nothing catches an exception here
AnomalySection ==
    /\ apc = "anomaly"
    /\ \E nanOk \in BOOLEAN :
          LET r == detect_anomalies(CsvRoundTrip(tab), nanOk)
          IN  /\ anom' = r
              /\ IF r.status = "returned" /\ AnomalyColumnRead(r.out)
                 THEN apc' = "prediction" /\ shown' = shown \cup {"anomaly detection"}
                 ELSE apc' = "crashed" /\ shown' = shown
    /\ UNCHANGED <<tab, kpi, fc, reported>>
    /\ UNCHANGED <<normVars, modelVars, extVars>>

\* lines 453-461: category prediction, when a description was entered
PredictionSection ==
    /\ apc = "prediction"
    /\ \E desc \in Descriptions \cup {""} :
          IF desc = ""
          THEN UNCHANGED <<pres, shown, reported>>
          ELSE /\ pres' = predict_category(file, desc)
               /\ IF pres' \in {"FileNotFoundError", "LoadError"}
                  THEN reported' = reported \cup {"category prediction"} /\ shown' = shown
                  ELSE shown' = shown \cup {"category prediction"} /\ reported' = reported
    /\ apc' = "forecast"
    /\ UNCHANGED <<tab, kpi, anom, fc>>
    /\ UNCHANGED <<file, tpc, tin, tret, trained, ppc, pdesc, pstart, tfit>>
    /\ UNCHANGED <<normVars, extVars>>

\* lines 463-529: the forecast, inside try / except Exception
ForecastSection ==
    /\ apc = "forecast"
    /\ \E horizon \in DashHorizons :
          LET r == forecast_expenses(CsvRoundTrip(tab), horizon)
          IN  /\ fc' = r
              /\ IF r.status = "returned"
                 THEN shown' = shown \cup {"forecast"} /\ reported' = reported
                 ELSE reported' = reported \cup {"forecast"} /\ shown' = shown
    /\ apc' = "done"
    /\ UNCHANGED <<tab, kpi, anom>>
    /\ UNCHANGED <<normVars, modelVars, extVars>>

NextDash ==
    \/ KPISection
    \/ InsightsSection
    \/ AnomalySection
    \/ PredictionSection
    \/ ForecastSection

\* the model file as the dashboard run finds it: absent, or stored earlier
InitDashOnly ==
    /\ NoRun
    /\ file \in {NoFile, StoredArtifact}
    /\ tfit = <<>>
    /\ tpc = "idle" /\ tin = NoCall /\ tret = "none" /\ trained = FALSE
    /\ ppc = "idle" /\ pdesc = "" /\ pstart = "none" /\ pres = "none"
    /\ InitDash
    /\ ExtOff

Components == {"filtering", "anomaly detection", "category prediction", "forecast"}

\* lines 229-245 with the widgets as a first run shows them: the whole date
\* range, and every discovered category selected (the discovered categories
\* are the non-null ones, so a row without a category is filtered out unless
\* no category was discovered at all)
DefaultFilter(t) ==
    LET known == {i \in 1..Len(t.rows) : t.rows[i]["Category"].k # "null"}
    IN  IF known = {} THEN t ELSE [t EXCEPT !.rows = Pick(t.rows, known, 1)]

\* lines 214-529: the sections below the load run one after the other on df.
\* The filters raise on a table without rows (line 225: min_d is NaT, which
\* has no date()); the charts raise when no expense row is left and no
\* earlier run left a picture (line 337); on a table with rows the anomaly
\* section, the prediction and the forecast (inside try/except) run
Downstream ==
    /\ pc = "filters"
    /\ \E stale \in BOOLEAN :
          IF Len(df.rows) = 0
          THEN pc' = "crashed" /\ ran' = ran
          ELSE IF ExpenseRows(DefaultFilter(df)) = {} /\ ~stale
          THEN pc' = "crashed" /\ ran' = ran \cup {"filtering"}
          ELSE pc' = "done" /\ ran' = ran \cup Components
    /\ UNCHANGED <<raw, uploaded, given, frame, validated, df, err>>
    /\ UNCHANGED <<modelVars, anaVars, extVars>>

NextNorm ==
    \/ FileUpload
    \/ LoadDefault
    \/ Downstream

\* no analysis of a table is under way
AnaOff ==
    /\ tab = NoTable
    /\ apc = "off"
    /\ kpi = NoKpi
    /\ anom = NoResult
    /\ fc = NoResult
    /\ shown = {}
    /\ reported = {}

Init == InitNorm /\ InitModel /\ AnaOff /\ ExtOff

\* the category model alone: no dashboard run
InitOff == NoRun /\ InitModel /\ AnaOff /\ ExtOff

Spec == Init /\ [][NextNorm]_vars

SpecModel == InitOff /\ [][NextModel]_vars

InitCallsOnly == NoRun /\ InitModel /\ InitCalls /\ ExtOff

SpecCalls == InitCallsOnly /\ [][NextCalls]_vars

SpecDash == InitDashOnly /\ [][NextDash]_vars

----------------------------------------------------------------------------
(* Properties of the normalizer, checked under Spec.                       *)

Returned_ == ~validated.none
RowsOf(t) == 1..Len(t.rows)

\* no column name, lower-cased, contains one of the keywords
NoColumnLike(t, keywords) ==
    \A i \in 1..Len(t.cols) : \A kw \in keywords :
        ~contains(lower(Chars(t.cols[i])), Chars(kw))

\* C1: every row validate_dataset returns has a non-null Date, a non-null
\* Amount, and an Amount within [-1e6, 1e6].
C1_NoNullsAndClipped ==
    Returned_ =>
        \A i \in RowsOf(validated) :
            /\ validated.rows[i]["Date"].k = "date"
            /\ validated.rows[i]["Amount"].k = "num"
            /\ validated.rows[i]["Amount"].n >= -AmountLimit
            /\ validated.rows[i]["Amount"].n <= AmountLimit

\* a returned table that lost a row to dropna and had an amount clipped
C1_Witness ==
    /\ Returned_
    /\ Len(validated.rows) < Len(given.rows)
    /\ \E i \in RowsOf(validated) : validated.rows[i]["Amount"] = Num(-AmountLimit)
    /\ \E j \in RowsOf(frame) : frame.rows[j]["Amount"] = Num(-2000000)

\* C2 (as claimed): a table with a Debit and a Credit column and no other
\* amount-like column, and a date-like column, is normalized, and each
\* returned row's Amount is Credit minus Debit, a missing value counting 0.
C2_DebitCreditFallback ==
    (/\ ~given.none
     /\ ~NoColumnLike(given, DateKeywords)
     /\ HasColumn(given, "Debit") /\ HasColumn(given, "Credit")
     /\ \A i \in 1..Len(given.cols) :
           given.cols[i] \notin {"Debit", "Credit"}
              => NoColumnLike(Table(<<given.cols[i]>>, <<>>), AmountKeywords))
    => /\ Returned_
       /\ \A i \in RowsOf(validated) :
             validated.rows[i]["Amount"] = CreditMinusDebit(validated.rows[i])

\* C3: when the table read has no date-like column, or neither an
\* amount-like column nor a debit/credit pair, the run stops with that
\* error, no table is returned or handed on, and no downstream component
\* runs.
C3_SchemaErrorHalts ==
    (\/ NoColumnLike(raw, DateKeywords)
     \/ (NoColumnLike(raw, AmountKeywords) /\ ~HasDebitCreditPair(raw)))
    => /\ ran = {}
       /\ validated.none
       /\ df.none
       /\ pc \in {"load", "stopped"}
       /\ pc = "stopped" => err \in {"NoDateColumn", "NoAmountColumn"}

\* validate_dataset stopped for want of an amount column, after it had
\* found and parsed the date column
C3_Witness ==
    /\ pc = "stopped"
    /\ uploaded
    /\ err = "NoAmountColumn"
    /\ HasColumn(frame, "Date")
    /\ Len(raw.rows) > 0
    /\ ran = {}

\* C4: when the table given to validate_dataset has no Type column, each
\* returned row's Type is Income exactly when its Amount is greater than 0
\* and Expense otherwise (so Expense for an Amount of 0).
C4_TypeFromSign ==
    (Returned_ /\ ~HasColumn(given, "Type")) =>
        \A i \in RowsOf(validated) :
            validated.rows[i]["Type"] =
                (IF validated.rows[i]["Amount"].n > 0 THEN Str("Income") ELSE Str("Expense"))

\* a returned row with Amount 0 and Type Expense, another kind of row beside it
C4_Witness ==
    /\ Returned_
    /\ ~HasColumn(given, "Type")
    /\ \E i \in RowsOf(validated) :
          validated.rows[i]["Amount"] = Num(0) /\ validated.rows[i]["Type"] = Str("Expense")
    /\ \E i \in RowsOf(validated) :
          validated.rows[i]["Amount"].n > 0 /\ validated.rows[i]["Type"] = Str("Income")

\* C5 (as claimed): every returned row has a non-null Category and a
\* non-null Description.
C5_CategoryDescriptionDefined ==
    Returned_ =>
        \A i \in RowsOf(validated) :
            /\ validated.rows[i]["Category"].k # "null"
            /\ validated.rows[i]["Description"].k # "null"

\* C6 (as claimed): every returned row's Type is Income or Expense.
C6_TypeIsEnum ==
    Returned_ =>
        \A i \in RowsOf(validated) :
            validated.rows[i]["Type"] \in {Str("Income"), Str("Expense")}

\* C7: validate_dataset applied to a table it returned returns the same
\* table: the same columns, the same rows in the same order, the same values.
C7_Idempotent ==
    Returned_ =>
        LET again == validate_dataset(validated)
        IN  again.status = "returned" /\ again.out = validated

\* a returned table with a row, whose source had a category column, no Type
\* column and an out-of-range amount
C7_Witness ==
    /\ Returned_
    /\ Len(validated.rows) > 0
    /\ HasColumn(raw, "Category") /\ ~HasColumn(raw, "Type")
    /\ \E i \in RowsOf(raw) : HasColumn(raw, "Amount") /\ raw.rows[i]["Amount"] = Num(-2000000)
    /\ validate_dataset(validated).out = validated

----------------------------------------------------------------------------
(* Properties of the category model, checked under SpecModel.              *)

\* C8 (as claimed): predict_category never loads a partially written
\* artifact.
C8_NoPartialLoad == pres # "LoadError"

\* a label of the stored artifact
Labels == {"Food", "Bills", "nan"}

\* C9 (as claimed): a call of predict_category that ends while no file is at
\* model_path fails with the model-not-trained error, and a call made after
\* a training has succeeded returns a label without raising.
C9_PredictOutcome ==
    (ppc = "idle" /\ pres # "none") =>
        /\ ~file.exists => pres = "FileNotFoundError"
        /\ pstart = "trained" => pres \in Labels

\* the table of the last training call has no expense row, or lacks the
\* Description or the Category column (the expense rows of a table are the
\* rows lines 35-36 keep: those of Type Expense, or all rows of a table
\* without a Type column)
Untrainable == tin.called /\ (tin.expenseRows = 0 \/ ~tin.hasDescription \/ ~tin.hasCategory)

\* C10: a training called on such a table returns (None, None) without
\* raising
C10_Returns == Untrainable => (tpc = "returned" /\ tret = "None, None")

\* C10: a training called on a table with no expense row, or without the
\* Description or the Category column, returns (None, None) without raising
\* and leaves the file at model_path as it is.
C10_NoOpTraining == [](C10_Returns) /\ [][Untrainable' => file' = file]_vars

\* an artifact is stored, and a training on a table without Category column
\* has returned (None, None)
C10_Witness ==
    /\ Complete(file)
    /\ tpc = "returned" /\ tret = "None, None"
    /\ tin.called /\ tin.hasDescription /\ ~tin.hasCategory /\ tin.expenseRows > 0

\* C11 (as claimed): a row with a missing Description or a missing Category
\* never contributes a training example, and no prediction is the label of
\* such a row.
C11_FittedOnCompleteRows ==
    /\ \A i \in 1..Len(file.art) : file.art[i].x # "nan" /\ file.art[i].y # "nan"
    /\ pres # "nan"

\* C12: once a dump is complete the stored artifact is the one fitted on the
\* table of the most recent successful fit, whatever was stored before, and
\* a prediction loaded from it is a function of that table and the query.
C12_Stored == Complete(file) => file.art = tfit

C12_LatestTrainingOnly ==
    [](C12_Stored) /\
    [][(ppc = "load" /\ ppc' = "idle" /\ Complete(file))
          => pres' = PredictLabel(tfit, pdesc)]_vars

\* a prediction was made from an earlier artifact ("Food" for its query), and
\* a later training has replaced that artifact by one that gives "Bills"
C12_Witness ==
    /\ trained /\ tpc = "returned" /\ tret = "clf, vec"
    /\ Complete(file) /\ file.art = tfit
    /\ pstart = "trained" /\ pres = "Food"
    /\ \A d \in Descriptions : PredictLabel(file.art, d) = "Bills"

----------------------------------------------------------------------------
(* Properties of detect_anomalies and forecast_expenses, checked under     *)
(* SpecCalls.                                                              *)

DetectReturned == anom.status # "none"
ForecastEnded == fc.status # "none"

\* the calendar day a Date cell of the CSV stands for, 0 when it is not a date
ParsedDay(cell) ==
    IF cell.k = "date" THEN cell.n
    ELSE IF cell.k = "str" /\ cell.s \in IsoDays THEN IsoDay(cell.s)
    ELSE 0

\* the rows of the table with a negative Amount and a parseable Date
ExpensePositions(t) ==
    {i \in 1..Len(t.rows) :
        /\ t.rows[i]["Amount"].k = "num" /\ t.rows[i]["Amount"].n < 0
        /\ ParsedDay(t.rows[i]["Date"]) # 0}

\* the calendar months (yyyymm) these rows fall in
ExpenseMonths(t) == {ParsedDay(t.rows[i]["Date"]) \div 100 : i \in ExpensePositions(t)}

HasDateAndAmount(t) == HasColumn(t, "Date") /\ HasColumn(t, "Amount")

\* months counted from year 0, and the months that are calendar months
MonthIndex(ym) == (ym \div 100) * 12 + (ym % 100)
IsCalendarMonth(ym) == (ym % 100) \in 1..12

\* C13: when the Amount column is absent or the table has no rows,
\* detect_anomalies returns the table as read, without an Anomaly column,
\* and does not raise.
C13_NothingToScore ==
    (DetectReturned /\ (~HasColumn(tab, "Amount") \/ Len(tab.rows) = 0))
    => /\ anom.status = "returned"
       /\ anom.out = tab
       /\ ~HasColumn(anom.out, "Anomaly")
       /\ ~anom.saved

\* detect_anomalies has returned a table that has an Amount column and no rows
C13_Witness ==
    /\ anom.status = "returned"
    /\ HasColumn(tab, "Amount") /\ Len(tab.rows) = 0
    /\ anom.out = tab

\* C14 (as claimed): the rows the isolation model is fitted on have a
\* numeric Amount, and a table with a row that has none is labelled without
\* failure.
C14_NullsExcludedFromFit ==
    (DetectReturned /\ HasColumn(tab, "Amount") /\ Len(tab.rows) > 0)
    => /\ anom.status = "returned"
       /\ \A i \in anom.fitted : tab.rows[i]["Amount"].k = "num"
       /\ HasColumn(anom.out, "Anomaly")

\* C15: for a horizon of at least 1 and a table with at least 3 distinct
\* expense months, forecast_expenses returns, and writes to the CSV, exactly
\* `horizon` rows with ds, yhat, yhat_lower and yhat_upper, none of them a
\* historical month.
C15_HorizonRows ==
    (ForecastEnded /\ HasDateAndAmount(tab) /\ Cardinality(ExpenseMonths(tab)) >= 3)
    => /\ fc.status = "returned"
       /\ fc.periods >= 1
       /\ Len(fc.rows) = fc.periods
       /\ fc.csv = fc.rows
       /\ \A k \in 1..Len(fc.rows) :
             /\ DOMAIN fc.rows[k] = {"ds", "yhat", "yhat_lower", "yhat_upper"}
             /\ fc.rows[k].ds \notin ExpenseMonths(tab)

\* a forecast of two months from a table of four expense rows
C15_Witness ==
    /\ fc.status = "returned" /\ fc.periods = 2 /\ Len(fc.rows) = 2
    /\ Len(tab.rows) = 4 /\ Cardinality(ExpensePositions(tab)) = 4

\* C16: the forecast rows start at the calendar month right after the last
\* historical expense month and go on month by month, also when the history
\* has months without expenses.
C16_Contiguous ==
    fc.status = "returned"
    => /\ Len(fc.rows) >= 1
       /\ \A m \in ExpenseMonths(tab) : MonthIndex(m) < MonthIndex(fc.rows[1].ds)
       /\ \E m \in ExpenseMonths(tab) : MonthIndex(fc.rows[1].ds) = MonthIndex(m) + 1
       /\ \A k \in 1..Len(fc.rows) : IsCalendarMonth(fc.rows[k].ds)
       /\ \A k \in 1..(Len(fc.rows) - 1) :
             MonthIndex(fc.rows[k + 1].ds) = MonthIndex(fc.rows[k].ds) + 1

\* a forecast of three months across the turn of the year, from a history
\* (September, October, December) that has no expense in November
C16_Witness ==
    /\ fc.status = "returned"
    /\ 202311 \notin ExpenseMonths(tab)
    /\ Len(fc.rows) = 3
    /\ fc.rows[1].ds = 202401 /\ fc.rows[3].ds = 202403

\* C17 (as claimed): forecast_expenses fails with the insufficient-history
\* error exactly when the expense rows fall in fewer than 3 distinct months.
C17_AsClaimed ==
    (ForecastEnded /\ HasDateAndAmount(tab))
    => ((fc.status = "raised" /\ fc.error = "NotEnoughMonths")
            <=> Cardinality(ExpenseMonths(tab)) < 3)

\* C17 (amended): forecast_expenses fails with the insufficient-history error
\* exactly when there is an expense row and the expense rows fall in 1 or 2
\* distinct months; with 3 distinct months it produces a forecast, however
\* many rows a month holds.
C17_InsufficientHistory ==
    (ForecastEnded /\ HasDateAndAmount(tab))
    => /\ (fc.status = "raised" /\ fc.error = "NotEnoughMonths")
             <=> Cardinality(ExpenseMonths(tab)) \in {1, 2}
       /\ Cardinality(ExpenseMonths(tab)) >= 3 => fc.status = "returned"

\* the call failed for want of history on four expense rows in two months
C17_Witness ==
    /\ fc.status = "raised" /\ fc.error = "NotEnoughMonths"
    /\ Cardinality(ExpenseMonths(tab)) = 2
    /\ Cardinality(ExpensePositions(tab)) = 4

\* the sum of the Amounts of the expense rows of month m
RECURSIVE MonthSum(_, _, _)
MonthSum(t, m, i) ==
    IF i > Len(t.rows) THEN 0
    ELSE (IF i \in ExpensePositions(t) /\ ParsedDay(t.rows[i]["Date"]) \div 100 = m
          THEN t.rows[i]["Amount"].n ELSE 0) + MonthSum(t, m, i + 1)

\* C18: on a table with a Date and an Amount column, forecast_expenses fails
\* with the no-expense-data error exactly when no row has a negative Amount
\* and a parseable Date (so before the history is counted), and the monthly
\* series has one value per expense month: the absolute value of the sum of
\* the negative Amounts of that month.
C18_NoExpenseData ==
    (ForecastEnded /\ HasDateAndAmount(tab))
    => /\ (fc.status = "raised" /\ fc.error = "NoExpenseRows") <=> ExpensePositions(tab) = {}
       /\ ExpensePositions(tab) # {}
            => /\ {fc.monthly[k].ds : k \in 1..Len(fc.monthly)} = ExpenseMonths(tab)
               /\ Len(fc.monthly) = Cardinality(ExpenseMonths(tab))
               /\ \A k \in 1..Len(fc.monthly) :
                     /\ fc.monthly[k].y = -MonthSum(tab, fc.monthly[k].ds, 1)
                     /\ fc.monthly[k].y > 0

\* a monthly series with a month of two expense rows, from a table that
\* also has an income row and a zero row in that month
C18_Witness ==
    /\ ForecastEnded
    /\ \E k \in 1..Len(fc.monthly) : fc.monthly[k].ds = 202309 /\ fc.monthly[k].y = 100
    /\ \E i \in 1..Len(tab.rows) : HasColumn(tab, "Amount") /\ tab.rows[i]["Amount"] = Num(1000)
    /\ \E i \in 1..Len(tab.rows) : HasColumn(tab, "Amount") /\ tab.rows[i]["Amount"] = Num(0)

----------------------------------------------------------------------------
(* Properties of the dashboard sections, checked under SpecDash.           *)

RECURSIVE SumWhere(_, _, _)
\* the sum of the Amounts of the rows from position i on whose sign is sgn
\* (1: positive, -1: negative)
SumWhere(t, sgn, i) ==
    IF i > Len(t.rows) THEN 0
    ELSE (IF t.rows[i]["Amount"].n * sgn > 0 THEN t.rows[i]["Amount"].n ELSE 0)
         + SumWhere(t, sgn, i + 1)

AmountsOf(t) == [i \in 1..Len(t.rows) |-> t.rows[i]["Amount"].n]

\* C19: total income is the sum of the positive Amounts, total expenses the
\* absolute value of the sum of the negative ones, net savings their
\* difference, the savings rate savings / income x 100, or 0 when income is
\* 0; the transactions (-50, 1000, -60) give 1000, 110 and 89%.
C19_KPIs ==
    kpi.status = "computed"
    => /\ kpi.total_income = SumWhere(tab, 1, 1)
       /\ kpi.total_expenses = Abs(SumWhere(tab, -1, 1))
       /\ kpi.total_expenses >= 0
       /\ kpi.net_savings = kpi.total_income - kpi.total_expenses
       /\ kpi.savings_rate.den > 0
       /\ IF kpi.total_income = 0
          THEN kpi.savings_rate.num = 0
          ELSE kpi.savings_rate.num * kpi.total_income
                  = kpi.net_savings * 100 * kpi.savings_rate.den
       /\ AmountsOf(tab) = <<-50, 1000, -60>>
            => /\ kpi.total_income = 1000
               /\ kpi.total_expenses = 110
               /\ kpi.savings_rate.num = 89 * kpi.savings_rate.den

\* the KPIs of the scenario's three transactions
C19_Witness ==
    /\ kpi.status = "computed"
    /\ AmountsOf(tab) = <<-50, 1000, -60>>
    /\ kpi.net_savings = 890

\* C20 (as claimed): once the anomaly section has run, anomaly detection and
\* the forecast each end with a result shown or a failure reported, for
\* every filtered table.
C20_FailuresIsolated ==
    (anom.status # "none" /\ apc \in {"done", "crashed"})
    => /\ "anomaly detection" \in shown \cup reported
       /\ "forecast" \in shown \cup reported
       /\ apc = "done"

----------------------------------------------------------------------------
(* Column discovery and the caller's table.                                *)

\* the keyword lists validate_dataset passes to detect_column
KeywordLists == {DateKeywords, AmountKeywords, CategoryKeywords, DescKeywords}

\* the name, each letter lower-cased, has the keyword at some offset
NameHasKeyword(name, kw) ==
    LET n == Chars(name)
        k == Chars(kw)
    IN  \E o \in 0..(Len(n) - Len(k)) : \A j \in 1..Len(k) : LowerChar(n[o + j]) = k[j]

\* the positions of the columns whose name has a keyword of K
Matching(cols, K) == {i \in 1..Len(cols) : \E kw \in K : NameHasKeyword(cols[i], kw)}

\* C22: detect_column returns the first column, in column order, whose
\* lower-cased name contains a keyword of the list, and None when there is
\* none; the Date column validate_dataset builds is parsed from that column.
C22_FirstMatchingColumn ==
    given # NoTable =>
        /\ \A K \in KeywordLists :
              LET M == Matching(given.cols, K)
                  r == detect_column(given.cols, K)
              IN  IF M = {} THEN r = None
                  ELSE \E i \in M : r = given.cols[i] /\ \A j \in M : i <= j
        /\ LET M == Matching(given.cols, DateKeywords)
           IN  M # {} =>
                 \A i \in 1..Len(frame.rows) :
                    frame.rows[i]["Date"] = ToDatetime(given.rows[i][given.cols[Min(M)]], TRUE)

\* a table whose first column matches no date keyword and whose second and
\* third both do: the second was taken, after lower-casing its name
C22_Witness ==
    /\ given # NoTable /\ validated # NoTable
    /\ Len(given.cols) = 3 /\ Len(given.rows) >= 1
    /\ given.cols[1] = "Category" /\ given.cols[2] = "TxnDate"
    /\ given.cols[3] = "Transaction Date"
    /\ detect_column(given.cols, DateKeywords) = "TxnDate"
    /\ detect_column(given.cols, DescKeywords) = None

\* C23 (as claimed): validate_dataset leaves the table it is given as it
\* was, whether it returns or stops: same columns, same values.
C23_InputNotMutated ==
    given # NoTable => frame = given

\* C24 (as claimed): in the upload path the table that reaches the filters
\* has every Amount within [-1e6, 1e6] and no null Date or Amount.
C24_UploadKeepsInvariants ==
    (uploaded /\ df # NoTable) =>
        \A i \in 1..Len(df.rows) :
            /\ df.rows[i]["Date"].k = "date"
            /\ df.rows[i]["Amount"].k = "num"
            /\ df.rows[i]["Amount"].n >= -AmountLimit
            /\ df.rows[i]["Amount"].n <= AmountLimit

\* C30 (as claimed): the date column and the amount column that
\* validate_dataset discovers are never one and the same source column.
C30_DistinctSourceColumns ==
    given # NoTable =>
        LET date_col == detect_column(given.cols, DateKeywords)
            amount_col == detect_column(given.cols, AmountKeywords)
        IN  date_col # None => date_col # amount_col

----------------------------------------------------------------------------
(* The filters of the dashboard script (src/src/dashboard_old.py, lines    *)
(* 214-245): the date range and the categories chosen in the widgets, and  *)
(* the filtered table df_filt built from them.                             *)

MaxFilterRows == 2

\* a row of the validated table `df`: Date and Amount are never null, the
\* Category is whatever the source column held
FilterRow(day, category) ==
    [Date |-> Dt(day), Amount |-> Num(-50), Category |-> category,
     Description |-> Str("KFC"), Type |-> Str("Expense")]

FilterRows ==
    {FilterRow(IsoDay(d), c) : <<d, c>> \in IsoDays \X {Str("Food"), Str("Rent"), Null}}

RECURSIVE FilterRowLists(_)
FilterRowLists(k) ==
    IF k = 0 THEN {<<>>}
    ELSE {Append(l, r) : <<l, r>> \in FilterRowLists(k - 1) \X FilterRows}

FilterTables ==
    UNION { {Table(<<"Date", "Amount", "Category", "Description", "Type">>, rows) :
                rows \in FilterRowLists(k)} : k \in 0..MaxFilterRows }

\* the days the calendar of st.date_input offers: some have a transaction,
\* 1 October and 1 November 2023 have none
CalendarDays == {20230915, 20231001, 20231020, 20231101, 20231205}

\* line 221: df["Date"].min() and .max()
MinDate(t) == CHOOSE d \in {t.rows[i]["Date"].n : i \in 1..Len(t.rows)} :
                 \A i \in 1..Len(t.rows) : d <= t.rows[i]["Date"].n
MaxDate(t) == CHOOSE d \in {t.rows[i]["Date"].n : i \in 1..Len(t.rows)} :
                 \A i \in 1..Len(t.rows) : d >= t.rows[i]["Date"].n

\* lines 223-228: what st.date_input returns for a range: the two dates
\* picked between min_value and max_value, or a tuple of one date while the
\* second one has not been picked
DateRangeValues(t) ==
    LET days == {d \in CalendarDays : MinDate(t) <= d /\ d <= MaxDate(t)}
    IN  {<<a, b>> : <<a, b>> \in {p \in days \X days : p[1] <= p[2]}}
            \cup {<<a>> : a \in days}

\* line 229: sorted(df["Category"].dropna().unique().tolist())
categories(t) ==
    {t.rows[i]["Category"].s : i \in {j \in 1..Len(t.rows) : t.rows[j]["Category"].k # "null"}}

\* lines 238-242: the rows the date mask keeps
DateMask(t, dr) ==
    IF Len(dr) = 2
    THEN {i \in 1..Len(t.rows) :
            t.rows[i]["Date"].n >= dr[1] /\ t.rows[i]["Date"].n <= dr[2]}
    ELSE 1..Len(t.rows)

\* variant: an empty selection keeps no row
CategoryMaskStrict(t, sel) ==
    {i \in 1..Len(t.rows) : t.rows[i]["Category"].k = "str" /\ t.rows[i]["Category"].s \in sel}

\* lines 244-245: if selected_cats: df_filt[df_filt["Category"].isin(selected_cats)]
CategoryMask(t, sel) ==
    IF sel # {}
    THEN {i \in 1..Len(t.rows) :
            t.rows[i]["Category"].k = "str" /\ t.rows[i]["Category"].s \in sel}
    ELSE 1..Len(t.rows)

\* lines 237-245
ApplyFilters(t, dr, sel) ==
    [t EXCEPT !.rows = Pick(t.rows, DateMask(t, dr) \cap CategoryMask(t, sel), 1)]

\* lines 221-230: the widgets are drawn and return the user's choice; on a
\* table without rows min_d is NaT and min_d.date() raises
FilterWidgets ==
    /\ pc = "filters"
    /\ IF Len(df.rows) = 0
       THEN pc' = "crashed" /\ UNCHANGED fltVars
       ELSE /\ date_range' \in DateRangeValues(df)
            /\ selected_cats' \in SUBSET categories(df)
            /\ pc' = "apply"
    /\ UNCHANGED <<raw, uploaded, given, frame, validated, df, ran, err>>
    /\ UNCHANGED <<modelVars, anaVars, repVars, webVars, syncVars>>

\* lines 237-245: df_filt
FilterApply ==
    /\ pc = "apply"
    /\ tab' = ApplyFilters(df, date_range, selected_cats)
    /\ pc' = "sections"
    /\ UNCHANGED <<raw, uploaded, given, frame, validated, df, ran, err>>
    /\ UNCHANGED <<apc, kpi, anom, fc, shown, reported>>
    /\ UNCHANGED <<modelVars, extVars>>

NextFilter ==
    \/ FilterWidgets
    \/ FilterApply

\* a script run that has loaded and validated its table
InitFilter ==
    /\ raw = NoTable /\ uploaded = FALSE
    /\ given = NoTable /\ frame = NoTable /\ validated = NoTable
    /\ df \in FilterTables
    /\ pc = "filters" /\ ran = {} /\ err = ""
    /\ InitModel /\ AnaOff /\ ExtOff

SpecFilter == InitFilter /\ [][NextFilter]_vars

----------------------------------------------------------------------------
(* The Anomalies page and the Report page of src/src/dashboard.py.  Every  *)
(* script run filters the table anew and shows one page; ANOMALIES_FILE    *)
(* outlives the runs.                                                      *)

MaxReportRows == 2

ReportRows == {DashRow(20230915, a) : a \in {-50, 1000}}

RECURSIVE ReportRowLists(_)
ReportRowLists(k) ==
    IF k = 0 THEN {<<>>}
    ELSE {Append(l, r) : <<l, r>> \in ReportRowLists(k - 1) \X ReportRows}

\* df_filt of a run: up to MaxReportRows rows, none when the filters leave none
ReportTables ==
    UNION { {Table(<<"Date", "Amount", "Category", "Description", "Type">>, rows) :
                rows \in ReportRowLists(k)} : k \in 0..MaxReportRows }

\* dashboard.py lines 355-360: the KPIs of the report; rate is the quotient
\* num / den, kept as a fraction
ReportKPIs(t) ==
    LET income == TotalIncome(t)
        expenses == Abs(SumAmounts(t, {i \in 1..Len(t.rows) : t.rows[i]["Amount"].n < 0}))
        savings == income - expenses
    IN  [income |-> income, expenses |-> expenses, savings |-> savings,
         rate |-> IF income # 0 THEN [num |-> savings * 100, den |-> income]
                  ELSE [num |-> 0, den |-> 1]]

\* models.py lines 79-92: the file at save_path after the call; the early
\* return of line 81 and an exception leave the file as it was
AnomaliesFileAfter(old, r) == IF r.saved THEN r.out ELSE old

\* dashboard.py lines 216-231: a script run starts and filters the table
NewRun ==
    /\ apc \in {"idle", "crashed"}
    /\ tab' \in ReportTables
    /\ apc' = "page"
    /\ UNCHANGED <<kpi, anom, fc, shown, reported>>
    /\ UNCHANGED <<normVars, modelVars, extVars>>

\* dashboard.py lines 300-318: df_filt is written to a CSV and
\* detect_anomalies reads it and saves its result at ANOMALIES_FILE
AnomaliesPage ==
    /\ apc = "page"
    /\ \E nanOk \in BOOLEAN :
          LET r == detect_anomalies(CsvRoundTrip(tab), nanOk)
          IN  /\ anom' = r
              /\ afile' = AnomaliesFileAfter(afile, r)
              /\ apc' = IF r.status = "returned" THEN "idle" ELSE "crashed"
    /\ UNCHANGED <<tab, kpi, fc, shown, reported, report>>
    /\ UNCHANGED <<normVars, modelVars, fltVars, webVars, syncVars>>

\* dashboard.py lines 349-431 and report.py lines 21-83: the KPIs are
\* computed from df_filt and the PDF is written.  assets: the fonts and the
\* pictures the PDF embeds are all there (add_font or pdf.image raises when
\* one is not); report.py line 75 raises when there is no anomalies file,
\* and lines 75-78 count the rows labelled Anomaly in the one that is there
ReportPage ==
    /\ apc = "page"
    /\ \E assets \in BOOLEAN :
          IF assets /\ ~afile.none
          THEN /\ report' = [status |-> "generated", of |-> tab,
                             kpis |-> ReportKPIs(tab), counted |-> afile]
               /\ apc' = "idle"
          ELSE /\ report' = [status |-> "raised"]
               /\ apc' = "crashed"
    /\ UNCHANGED <<tab, kpi, anom, fc, shown, reported, afile>>
    /\ UNCHANGED <<normVars, modelVars, fltVars, webVars, syncVars>>

\* dashboard.py lines 236-296 and 323-344: the Overview, Spending Insights
\* and Forecast pages write neither the anomalies file nor the report
OtherPage ==
    /\ apc = "page"
    /\ apc' = "idle"
    /\ UNCHANGED <<tab, kpi, anom, fc, shown, reported>>
    /\ UNCHANGED <<normVars, modelVars, extVars>>

NextReport ==
    \/ NewRun
    \/ AnomaliesPage
    \/ ReportPage
    \/ OtherPage

\* the first script run of a session; an anomalies file of an earlier
\* session is not there
InitReport ==
    /\ NoRun /\ InitModel
    /\ tab = NoTable /\ apc = "idle"
    /\ kpi = NoKpi /\ anom = NoResult /\ fc = NoResult
    /\ shown = {} /\ reported = {}
    /\ ExtOff

SpecReport == InitReport /\ [][NextReport]_vars

\* C28 (as claimed): the anomaly count of a generated report is counted in
\* the result of a detection run over the table the report's KPIs are
\* computed from.
C28_CountFromSameTable ==
    report.status = "generated" =>
        \E nanOk \in BOOLEAN :
            LET r == detect_anomalies(CsvRoundTrip(report.of), nanOk)
            IN  r.saved /\ report.counted = r.out

----------------------------------------------------------------------------
(* The web app (src/personal_finance_web/app.py): registration, login, the *)
(* dashboard page and logout.  Registration requests of several clients    *)
(* are handled concurrently, each one step at a time; the requests of the  *)
(* one browser whose session is followed come one after the other.         *)

MaxRegistrations == 2

\* what the form fields may hold
TypedEmails == {"Ann@x.org", "ann@x.org ", "bob@x.org"}
Passwords == {"pw1", "pw2"}

RECURSIVE StripLeft(_)
StripLeft(w) == IF w # <<>> /\ Head(w) = " " THEN StripLeft(Tail(w)) ELSE w

RECURSIVE StripRight(_)
StripRight(w) ==
    IF w # <<>> /\ w[Len(w)] = " " THEN StripRight(SubSeq(w, 1, Len(w) - 1)) ELSE w

\* lines 25 and 42: request.form.get("email", "").strip().lower()
FormEmail(typed) == lower(StripRight(StripLeft(Chars(typed))))

\* generate_password_hash(password): the stored text is derived from the
\* password and is not the password
generate_password_hash(password) == [method |-> "pbkdf2", digest |-> <<"digest of", password>>]

\* variant: every password is accepted
check_any_password(pwhash, password) == TRUE

\* check_password_hash(pwhash, password)
check_password_hash(pwhash, password) ==
    pwhash = generate_password_hash(password)

\* db.users.find_one({"email": email}): the first matching document, None
\* ([found |-> FALSE]) when there is none
find_one(coll, email) ==
    LET hits == {i \in 1..Len(coll) : coll[i].email = email}
    IN  IF hits = {} THEN [found |-> FALSE]
        ELSE [found |-> TRUE, doc |-> coll[Min(hits)]]

IdleRequest == [pc |-> "idle", email |-> <<>>, password |-> "", outcome |-> "none"]

\* lines 24-29: the POST arrives, the form is read and `if not db` is
\* evaluated: db is None without MONGO_URI; a pymongo 4 Database raises
\* NotImplementedError when its truth value is taken
RegisterPost(i) ==
    /\ reg[i].pc = "idle"
    /\ \E typed \in TypedEmails, password \in Passwords :
          reg' = [reg EXCEPT ![i] =
                    CASE db = "None" ->
                           [pc |-> "done", email |-> FormEmail(typed), password |-> password,
                            outcome |-> "not configured"]
                      [] db = "no truth value" ->
                           [pc |-> "done", email |-> FormEmail(typed), password |-> password,
                            outcome |-> "error 500"]
                      [] db = "usable" ->
                           [pc |-> "find", email |-> FormEmail(typed), password |-> password,
                            outcome |-> "none"]]
    /\ UNCHANGED <<db, users, session, page>>
    /\ UNCHANGED <<normVars, modelVars, anaVars, fltVars, repVars, syncVars>>

\* lines 30-32: find_one, and the rejection when the email is there
RegisterFind(i) ==
    /\ reg[i].pc = "find"
    /\ reg' = [reg EXCEPT ![i] =
                 IF find_one(users, reg[i].email).found
                 THEN [@ EXCEPT !.pc = "done", !.outcome = "already registered"]
                 ELSE [@ EXCEPT !.pc = "insert"]]
    /\ UNCHANGED <<db, users, session, page>>
    /\ UNCHANGED <<normVars, modelVars, anaVars, fltVars, repVars, syncVars>>

\* lines 33-36: the hash is stored
RegisterInsert(i) ==
    /\ reg[i].pc = "insert"
    /\ users' = Append(users, [email |-> reg[i].email,
                               password |-> generate_password_hash(reg[i].password)])
    /\ reg' = [reg EXCEPT ![i] = [@ EXCEPT !.pc = "done", !.outcome = "registered"]]
    /\ UNCHANGED <<db, session, page>>
    /\ UNCHANGED <<normVars, modelVars, anaVars, fltVars, repVars, syncVars>>

Shown(view, typed, password) ==
    [view |-> view, form |-> [email |-> typed, password |-> password]]

\* lines 39-54: POST /login
LoginPost ==
    /\ \E typed \in TypedEmails, password \in Passwords :
          LET email == FormEmail(typed)
              user == find_one(users, email)
          IN  CASE db = "None" ->
                     page' = Shown("redirect login", typed, password) /\ session' = session
                [] db = "no truth value" ->
                     page' = Shown("error 500", typed, password) /\ session' = session
                [] db = "usable" ->
                     IF user.found /\ check_password_hash(user.doc.password, password)
                     THEN page' = Shown("redirect dashboard", typed, password)
                          /\ session' = email
                     ELSE page' = Shown("redirect login", typed, password)
                          /\ session' = session
    /\ UNCHANGED <<db, users, reg>>
    /\ UNCHANGED <<normVars, modelVars, anaVars, fltVars, repVars, syncVars>>

\* lines 56-60: GET /dashboard
DashboardGet ==
    /\ page' = IF session = NoUser THEN Shown("redirect login", "", "")
               ELSE Shown("dashboard", "", "")
    /\ UNCHANGED <<db, users, reg, session>>
    /\ UNCHANGED <<normVars, modelVars, anaVars, fltVars, repVars, syncVars>>

\* lines 62-66: GET /logout
LogoutGet ==
    /\ session' = NoUser
    /\ page' = Shown("redirect home", "", "")
    /\ UNCHANGED <<db, users, reg>>
    /\ UNCHANGED <<normVars, modelVars, anaVars, fltVars, repVars, syncVars>>

\* lines 16-20: GET /
HomeGet ==
    /\ page' = IF session # NoUser THEN Shown("redirect dashboard", "", "")
               ELSE Shown("index", "", "")
    /\ UNCHANGED <<db, users, reg, session>>
    /\ UNCHANGED <<normVars, modelVars, anaVars, fltVars, repVars, syncVars>>

Register ==
    \E i \in 1..MaxRegistrations : RegisterPost(i) \/ RegisterFind(i) \/ RegisterInsert(i)

NextWeb ==
    \/ Register
    \/ LoginPost
    \/ DashboardGet
    \/ LogoutGet
    \/ HomeGet

\* the app as started: an empty users collection, a browser without session
InitWeb ==
    /\ NoRun /\ InitModel /\ AnaOff /\ FltOff /\ RepOff /\ SyncOff
    /\ db \in {"None", "no truth value", "usable"}
    /\ users = <<>>
    /\ reg = [i \in 1..MaxRegistrations |-> IdleRequest]
    /\ session = NoUser
    /\ page = NoPage

SpecWeb == InitWeb /\ [][NextWeb]_vars

\* C25 (as claimed): the users collection holds at most one account per
\* email, however the registration requests interleave.
C25_OneAccountPerEmail ==
    \A i, j \in 1..Len(users) : users[i].email = users[j].email => i = j

\* C29: the dashboard page is rendered only while the session holds a user;
\* the session's user changes to an email only by a login whose form holds
\* that email and a password matching the hash stored for it; a logout
\* leaves the session without user, so that no dashboard request renders
\* the page until such a login.
C29_SessionGate ==
    [][ /\ page'.view = "dashboard" => (session # NoUser /\ session' = session)
        /\ (session' # session /\ session' # NoUser) =>
              /\ session' = lower(StripRight(StripLeft(Chars(page'.form.email))))
              /\ \E i \in 1..Len(users) :
                    /\ users[i].email = session'
                    /\ \A j \in 1..(i - 1) : users[j].email # session'
                    /\ users[i].password.digest = <<"digest of", page'.form.password>>
        /\ page'.view = "redirect home" => session' = NoUser
      ]_vars

\* a user who registered, logged in and was shown the dashboard; another
\* account is there as well
C29_Witness ==
    /\ page.view = "dashboard"
    /\ session # NoUser
    /\ Len(users) = 2
    /\ users[1].email # users[2].email
    /\ users[2].email = session

----------------------------------------------------------------------------
(* The transactions of a user: save_transactions and get_transactions of   *)
(* src/src/flask_backend.py, and the script run of src/src/dashboard.py    *)
(* (lines 80-146) that fetches the saved transactions and syncs its table. *)

MaxStored == 4
MaxUploadRows == 2

\* the emails users log in with
SyncEmails == {Chars("Ann@x.org"), Chars("bob@x.org")}

\* the CSV files a user may upload, as df.to_dict(orient="records"): one
\* record per row, keyed by the column names; a file may have a column
\* named email
UploadRows(cols) ==
    IF "email" \in cols
    THEN {[Amount |-> 50, email |-> e] : e \in SyncEmails}
    ELSE {[Amount |-> a] : a \in {50, -60}}

RECURSIVE UploadRowLists(_, _)
UploadRowLists(cols, k) ==
    IF k = 0 THEN {<<>>}
    ELSE {Append(l, r) : <<l, r>> \in UploadRowLists(cols, k - 1) \X UploadRows(cols)}

UploadedFiles ==
    UNION { UNION {UploadRowLists(cols, k) : k \in 1..MaxUploadRows} :
            cols \in {{"Amount"}, {"Amount", "email"}} }

\* flask_backend.py line 58: {"email": email, **rec}; a key of rec
\* replaces the key written before it
Document(email, rec) ==
    [k \in (DOMAIN rec) \cup {"email"} |-> IF k \in DOMAIN rec THEN rec[k] ELSE email]

\* flask_backend.py lines 57-59: insert_many.  `by` notes the email of the
\* request next to each document; the collection does not hold it
save_transactions(store, email, records) ==
    store \o [i \in 1..Len(records) |-> [doc |-> Document(email, records[i]), by |-> email]]

\* flask_backend.py line 71: list(transactions.find({"email": email}, {"_id": 0}))
get_transactions(store, email) ==
    LET found == SelectSeq(store, LAMBDA d : d.doc["email"] = email)
    IN  [i \in 1..Len(found) |-> found[i].doc]

\* dashboard.py lines 36-48: a login the backend accepted
SyncLogin ==
    /\ spc = "login"
    /\ session' \in SyncEmails
    /\ spc' = "fetch"
    /\ UNCHANGED <<txns, sdf, supl, db, users, reg, page>>
    /\ UNCHANGED <<normVars, modelVars, anaVars, fltVars, repVars>>

\* dashboard.py lines 88-90: the Logout button
SyncLogout ==
    /\ spc = "fetch"
    /\ session' = NoUser
    /\ spc' = "login"
    /\ sdf' = <<>> /\ supl' = FALSE
    /\ UNCHANGED <<txns, db, users, reg, page>>
    /\ UNCHANGED <<normVars, modelVars, anaVars, fltVars, repVars>>

\* dashboard.py lines 95-107: df is what get_transactions returns, when it
\* returns anything
FetchSaved ==
    /\ spc = "fetch"
    /\ sdf' = get_transactions(txns, session)
    /\ supl' = FALSE
    /\ spc' = "upload"
    /\ UNCHANGED <<txns, db, users, reg, session, page>>
    /\ UNCHANGED <<normVars, modelVars, anaVars, fltVars, repVars>>

\* dashboard.py lines 112-128: an uploaded file replaces df; without any
\* data the run stops
UploadStep ==
    /\ spc = "upload"
    /\ \/ sdf' \in UploadedFiles /\ supl' = TRUE
       \/ UNCHANGED <<sdf, supl>>
    /\ spc' = IF sdf' = <<>> THEN "fetch" ELSE "sync"
    /\ UNCHANGED <<txns, db, users, reg, session, page>>
    /\ UNCHANGED <<normVars, modelVars, anaVars, fltVars, repVars>>

\* dashboard.py lines 133-146: df is posted to /save_transactions; the
\* next script run starts at the fetch again
SyncStep ==
    /\ spc = "sync"
    /\ Len(txns) + Len(sdf) <= MaxStored
    /\ txns' = save_transactions(txns, session, sdf)
    /\ spc' = "fetch"
    /\ UNCHANGED <<sdf, supl, db, users, reg, session, page>>
    /\ UNCHANGED <<normVars, modelVars, anaVars, fltVars, repVars>>

NextSync ==
    \/ SyncLogin
    \/ SyncLogout
    \/ FetchSaved
    \/ UploadStep
    \/ SyncStep

\* an empty transactions collection, nobody logged in
InitSync ==
    /\ NoRun /\ InitModel /\ AnaOff /\ FltOff /\ RepOff /\ WebOff
    /\ txns = <<>>
    /\ spc = "login"
    /\ sdf = <<>>
    /\ supl = FALSE

SpecSync == InitSync /\ [][NextSync]_vars

\* C26 (as claimed): a script run that fetches the saved transactions and
\* syncs them, no file being uploaded, leaves what get_transactions returns
\* for the user as it was.
C26_RerunKeepsStore ==
    [][ (spc = "sync" /\ ~supl) =>
            get_transactions(txns', session) = get_transactions(txns, session) ]_vars

\* C27 (as claimed): every stored document carries the email of the request
\* that stored it, so get_transactions for an email returns only records of
\* requests made for that email.
C27_StoredUnderRequestEmail ==
    \A e \in SyncEmails :
        \A i \in 1..Len(txns) :
            txns[i].doc["email"] = e => txns[i].by = e

====
